---------------------------- MODULE Spec2Model ----------------------------
(***************************************************************************)
(* Model of nom's complete-input byte primitives (src/bytes/complete.rs)   *)
(* and of its error core (src/error.rs).                                   *)
(*                                                                         *)
(* An input is a byte slice: a finite sequence of bytes.  A position is    *)
(* the slice that starts there, as in the source, where an error records   *)
(* the input it was built from.  A predicate Fn(Item) -> bool is a         *)
(* function [Alphabet -> BOOLEAN].                                         *)
(***************************************************************************)
EXTENDS Integers, Sequences, FiniteSets, TLC

\* ------------------------------------------------------------- bounds
MaxLen == 3
MaxTag == 2
MaxCount == 3
MaxDepth == 2
MaxAppend == 1
MaxCtxLen == 2

\* The bytes inputs are made of: 'A', 'a' and 'b'.
Alphabet == {65, 97, 98}

RECURSIVE SeqsUpTo(_)
SeqsUpTo(k) ==
  IF k = 0 THEN {<<>>}
  ELSE LET shorter == SeqsUpTo(k - 1)
       IN  shorter \cup {Append(s, c) : s \in {t \in shorter : Len(t) = k - 1}, c \in Alphabet}

Inputs == SeqsUpTo(MaxLen)
Tags == SeqsUpTo(MaxTag)
Counts == 0 .. MaxCount
Preds == [Alphabet -> BOOLEAN]
Labels == {"outer", "inner"}
\* the kinds an outer combinator appends to the error of its parser
AppendKinds == {"Many1"}
\* The error representations: the type parameter E of every parser.
Reprs == {"pair", "verbose", "unit"}

\* ------------------------------------------------------- Option<usize>
None == [some |-> FALSE]
Some(v) == [some |-> TRUE, v |-> v]

\* ------------------------------------------------ error.rs: ParseError
\* impl ParseError<I> for (I, ErrorKind), for () and for VerboseError<I>
from_error_kind(E, input, kind) ==
  CASE E = "pair" -> [input |-> input, kind |-> kind]
    [] E = "unit" -> [unit |-> TRUE]
    [] E = "verbose" -> [errors |-> << <<input, [v |-> "Nom", kind |-> kind]>> >>]

append(E, input, kind, other) ==
  CASE E = "pair" -> other
    [] E = "unit" -> [unit |-> TRUE]
    [] E = "verbose" ->
         [errors |-> Append(other.errors, <<input, [v |-> "Nom", kind |-> kind]>>)]

from_char(E, input, c) ==
  CASE E = "verbose" -> [errors |-> << <<input, [v |-> "Char", c |-> c]>> >>]
    [] OTHER -> from_error_kind(E, input, "Char")

\* faulty variant: the entry is put in front of the list
add_context_front(E, input, ctx, other) ==
  CASE E = "verbose" ->
         [errors |-> << <<input, [v |-> "Context", ctx |-> ctx]>> >> \o other.errors]
    [] OTHER -> other

add_context(E, input, ctx, other) ==
  CASE E = "verbose" ->
         [errors |-> Append(other.errors, <<input, [v |-> "Context", ctx |-> ctx]>>)]
    [] OTHER -> other

make_error(E, input, kind) == from_error_kind(E, input, kind)

\* faulty variant: an error built anew from the arguments, the inner one dropped
append_error_newest(E, input, kind, other) == from_error_kind(E, input, kind)

append_error(E, input, kind, other) == append(E, input, kind, other)

\* ------------------------------------------------------------ IResult
NoResult == [tag |-> "none"]
Panic == [tag |-> "panic"]
ErrError(e) == [tag |-> "Error", err |-> e]
ErrFailure(e) == [tag |-> "Failure", err |-> e]
ErrIncomplete(needed) == [tag |-> "Incomplete", needed |-> needed]
\* the tuple (remaining, consumed)
Pair(rest, out) == [ok |-> TRUE, rest |-> rest, out |-> out]
\* Ok((rest, matched)); a split out of the input's range panics instead
Ok(split) ==
  IF ~split.ok THEN Panic
  ELSE [tag |-> "Ok", rest |-> split.rest, out |-> split.out]

\* ------------------------------------- the input capabilities, on &[u8]
input_len(i) == Len(i)

\* (remaining, consumed): the suffix from count, the prefix [0, count)
take_split(i, count) ==
  IF count > Len(i) THEN [ok |-> FALSE]
  ELSE Pair(SubSeq(i, count + 1, Len(i)), SubSeq(i, 1, count))

\* i.slice(from..)
slice(i, from) == SubSeq(i, from + 1, Len(i))

slice_index(i, count) == IF Len(i) >= count THEN Some(count) ELSE None

\* offset of the first element the predicate holds for
position(i, pred) ==
  LET hits == {k \in 1 .. Len(i) : pred[i[k]]}
  IN  IF hits = {} THEN None
      ELSE Some((CHOOSE k \in hits : \A j \in hits : k <= j) - 1)

Min(a, b) == IF a < b THEN a ELSE b

compare(i, t) ==
  LET m == Min(Len(i), Len(t))
  IN  IF \E k \in 1 .. m : i[k] # t[k] THEN "Error"
      ELSE IF m < Len(t) THEN "Incomplete"
      ELSE "Ok"

\* ASCII case folding
to_lower(c) == IF c >= 65 /\ c <= 90 THEN c + 32 ELSE c

compare_no_case(i, t) ==
  LET m == Min(Len(i), Len(t))
  IN  IF \E k \in 1 .. m : to_lower(i[k]) # to_lower(t[k]) THEN "Error"
      ELSE IF m < Len(t) THEN "Incomplete"
      ELSE "Ok"

\* offset of the first occurrence of substr
find_substring(i, substr) ==
  LET n == Len(substr)
      hits == {k \in 0 .. Len(i) - n : SubSeq(i, k + 1, k + n) = substr}
  IN  IF hits = {} THEN None
      ELSE Some(CHOOSE k \in hits : \A j \in hits : k <= j)

find_token(arr, c) == \E k \in 1 .. Len(arr) : arr[k] = c

split_at_position_complete(E, i, pred) ==
  LET p == position(i, pred)
  IN  IF p.some THEN Ok(take_split(i, p.v))
      ELSE Ok(take_split(i, input_len(i)))

split_at_position1_complete(E, i, pred, e) ==
  LET p == position(i, pred)
  IN  IF p.some
      THEN IF p.v = 0 THEN ErrError(from_error_kind(E, i, e))
           ELSE Ok(take_split(i, p.v))
      ELSE IF input_len(i) = 0 THEN ErrError(from_error_kind(E, i, e))
           ELSE Ok(take_split(i, input_len(i)))

\* the closure |c| !cond(c)
Not(cond) == [c \in Alphabet |-> ~cond[c]]
\* the closure |c| arr.find_token(c)
InSet(arr) == [c \in Alphabet |-> find_token(arr, c)]

\* ------------------------------------------------- bytes/complete.rs
tag(E, t, i) ==
  LET tag_len == input_len(t)
  IN  IF compare(i, t) = "Ok" THEN Ok(take_split(i, tag_len))
      ELSE ErrError(from_error_kind(E, i, "Tag"))

\* faulty variant: the comparison is the exact one
tag_no_case_exact(E, t, i) ==
  LET tag_len == input_len(t)
  IN  IF compare(i, t) = "Ok" THEN Ok(take_split(i, tag_len))
      ELSE ErrError(from_error_kind(E, i, "Tag"))

tag_no_case(E, t, i) ==
  LET tag_len == input_len(t)
  IN  IF compare_no_case(i, t) = "Ok" THEN Ok(take_split(i, tag_len))
      ELSE ErrError(from_error_kind(E, i, "Tag"))

\* faulty variant: the scan stops at the first element outside the set
is_not_neg(E, arr, i) == split_at_position1_complete(E, i, Not(InSet(arr)), "IsNot")

is_not(E, arr, i) == split_at_position1_complete(E, i, InSet(arr), "IsNot")

\* faulty variant: the kind of is_not
is_a_kind(E, arr, i) == split_at_position1_complete(E, i, Not(InSet(arr)), "IsNot")

is_a(E, arr, i) == split_at_position1_complete(E, i, Not(InSet(arr)), "IsA")

\* faulty variant: the predicate is not negated, so the scan stops at the first
\* element that satisfies it
take_while_stop(E, cond, i) == split_at_position_complete(E, i, cond)

take_while(E, cond, i) == split_at_position_complete(E, i, Not(cond))

take_while1(E, cond, i) == split_at_position1_complete(E, i, Not(cond), "TakeWhile1")

\* faulty variant: at the end of the input the lower bound m is not looked at
take_while_m_n_nomin(E, m, n, cond, i) ==
  LET p == position(i, Not(cond))
      len == input_len(i)
  IN  IF p.some
      THEN IF p.v >= m
           THEN IF p.v <= n THEN Ok(take_split(i, p.v))
                ELSE Ok(take_split(i, n))
           ELSE ErrError(from_error_kind(E, i, "TakeWhileMN"))
      ELSE IF len >= n THEN Ok(take_split(i, n))
           ELSE Ok(Pair(slice(i, len), i))

\* faulty variant: a run longer than n is taken whole
take_while_m_n_greedy(E, m, n, cond, i) ==
  LET p == position(i, Not(cond))
      len == input_len(i)
  IN  IF p.some
      THEN IF p.v >= m THEN Ok(take_split(i, p.v))
           ELSE ErrError(from_error_kind(E, i, "TakeWhileMN"))
      ELSE IF len >= n THEN Ok(take_split(i, n))
           ELSE IF len >= m /\ len <= n THEN Ok(Pair(slice(i, len), i))
           ELSE ErrError(from_error_kind(E, i, "TakeWhileMN"))

\* faulty variant: at the end of the input the match is the whole input while
\* the rest starts after n elements
take_while_m_n_dup(E, m, n, cond, i) ==
  LET p == position(i, Not(cond))
      len == input_len(i)
  IN  IF p.some
      THEN IF p.v >= m
           THEN IF p.v <= n THEN Ok(take_split(i, p.v))
                ELSE Ok(take_split(i, n))
           ELSE ErrError(from_error_kind(E, i, "TakeWhileMN"))
      ELSE IF len >= n THEN Ok(Pair(slice(i, n), i))
           ELSE IF len >= m /\ len <= n THEN Ok(Pair(slice(i, len), i))
           ELSE ErrError(from_error_kind(E, i, "TakeWhileMN"))

take_while_m_n(E, m, n, cond, i) ==
  LET p == position(i, Not(cond))
      len == input_len(i)
  IN  IF p.some
      THEN IF p.v >= m
           THEN IF p.v <= n THEN Ok(take_split(i, p.v))
                ELSE Ok(take_split(i, n))
           ELSE ErrError(from_error_kind(E, i, "TakeWhileMN"))
      ELSE IF len >= n THEN Ok(take_split(i, n))
           ELSE IF len >= m /\ len <= n THEN Ok(Pair(slice(i, len), i))
           ELSE ErrError(from_error_kind(E, i, "TakeWhileMN"))

take_till(E, cond, i) == split_at_position_complete(E, i, cond)

take_till1(E, cond, i) == split_at_position1_complete(E, i, cond, "TakeTill1")

\* faulty variant: a short input is taken whole
take_short(E, count, i) ==
  LET idx == slice_index(i, count)
  IN  IF ~idx.some THEN Ok(take_split(i, input_len(i)))
      ELSE Ok(take_split(i, idx.v))

take(E, count, i) ==
  LET idx == slice_index(i, count)
  IN  IF ~idx.some THEN ErrError(from_error_kind(E, i, "Eof"))
      ELSE Ok(take_split(i, idx.v))

\* faulty variant: the terminator is consumed too
take_until_consume(E, t, i) ==
  LET idx == find_substring(i, t)
  IN  IF ~idx.some THEN ErrError(from_error_kind(E, i, "TakeUntil"))
      ELSE Ok(take_split(i, idx.v + input_len(t)))

take_until(E, t, i) ==
  LET idx == find_substring(i, t)
  IN  IF ~idx.some THEN ErrError(from_error_kind(E, i, "TakeUntil"))
      ELSE Ok(take_split(i, idx.v))

\* the character parser: the one caller of from_char
char(E, c, i) ==
  IF input_len(i) > 0 /\ i[1] = c THEN Ok(take_split(i, 1))
  ELSE ErrError(from_char(E, i, c))

\* --------------------------------------------------- error.rs: context
\* the closure context(ctx, f) returns, applied to i, where r is f(i.clone())
\* faulty variant: a recoverable error stays recoverable
context_keep(E, ctx, i, r) ==
  CASE r.tag = "Ok" -> r
    [] r.tag = "Incomplete" -> ErrIncomplete(r.needed)
    [] r.tag = "Error" -> ErrError(add_context(E, i, ctx, r.err))
    [] r.tag = "Failure" -> ErrFailure(add_context(E, i, ctx, r.err))
    [] OTHER -> r

context(E, ctx, i, r) ==
  CASE r.tag = "Ok" -> r
    [] r.tag = "Incomplete" -> ErrIncomplete(r.needed)
    [] r.tag \in {"Error", "Failure"} -> ErrFailure(add_context(E, i, ctx, r.err))
    [] OTHER -> r

\* ------------------------------------------------------ state machine
VARIABLES
  repr,    \* the error representation the parsers are instantiated with
  input,   \* the input the next parser is applied to
  call,    \* the last parser applied: its name, configuration and input
  result,  \* what it returned
  stack,   \* the context wrappers entered and not yet returned from
  applied  \* the calls that built the error in result, oldest first

vars == <<repr, input, call, result, stack, applied>>

NoCall == [op |-> "none"]
Needs == {"Unknown", "Size1"}

Init ==
  /\ repr \in Reprs
  /\ input \in Inputs
  /\ call = NoCall
  /\ result = NoResult
  /\ stack = <<>>
  /\ applied = <<>>

\* the same, for the wrappers: the inputs are the shorter ones
InitCtx ==
  /\ repr \in Reprs
  /\ input \in SeqsUpTo(MaxCtxLen)
  /\ call = NoCall
  /\ result = NoResult
  /\ stack = <<>>
  /\ applied = <<>>

Ready == result.tag = "none"

Apply(c, r) ==
  /\ Ready
  /\ call' = c
  /\ result' = r
  /\ applied' = IF r.tag = "Error" THEN <<[op |-> "from", call |-> c]>> ELSE <<>>
  /\ UNCHANGED <<repr, input, stack>>

Tag(t) == Apply([op |-> "tag", i |-> input, t |-> t], tag(repr, t, input))

TagNoCase(t) ==
  Apply([op |-> "tag_no_case", i |-> input, t |-> t], tag_no_case(repr, t, input))

IsNot(arr) == Apply([op |-> "is_not", i |-> input, arr |-> arr], is_not(repr, arr, input))

IsA(arr) == Apply([op |-> "is_a", i |-> input, arr |-> arr], is_a(repr, arr, input))

TakeWhile(cond) ==
  Apply([op |-> "take_while", i |-> input, cond |-> cond], take_while(repr, cond, input))

TakeWhile1(cond) ==
  Apply([op |-> "take_while1", i |-> input, cond |-> cond], take_while1(repr, cond, input))

TakeWhileMN(m, n, cond) ==
  Apply([op |-> "take_while_m_n", i |-> input, m |-> m, n |-> n, cond |-> cond],
        take_while_m_n(repr, m, n, cond, input))

TakeTill(cond) ==
  Apply([op |-> "take_till", i |-> input, cond |-> cond], take_till(repr, cond, input))

TakeTill1(cond) ==
  Apply([op |-> "take_till1", i |-> input, cond |-> cond], take_till1(repr, cond, input))

Take(count) ==
  Apply([op |-> "take", i |-> input, count |-> count], take(repr, count, input))

TakeUntil(t) ==
  Apply([op |-> "take_until", i |-> input, t |-> t], take_until(repr, t, input))

\* a parser of the streaming kind, nested in a wrapper, asks for more input
Streaming(needed) ==
  /\ stack # <<>>
  /\ Apply([op |-> "streaming", i |-> input], ErrIncomplete(needed))

\* the caller goes on with the rest of a successful parse
Advance ==
  /\ result.tag = "Ok"
  /\ input' = result.rest
  /\ call' = NoCall
  /\ result' = NoResult
  /\ UNCHANGED <<repr, stack, applied>>

\* context(ctx, f)(i): the closure keeps i and calls f(i.clone())
EnterContext(ctx) ==
  /\ Ready
  /\ Len(stack) < MaxDepth
  /\ stack' = Append(stack, [i |-> input, ctx |-> ctx])
  /\ UNCHANGED <<repr, input, call, result, applied>>

\* f has returned: the closure's match on its result
ExitContext ==
  /\ stack # <<>>
  /\ ~Ready
  /\ LET top == stack[Len(stack)]
     IN  /\ result' = context(repr, top.ctx, top.i, result)
         /\ call' = [op |-> "context", i |-> top.i, ctx |-> top.ctx, inner |-> result]
         /\ applied' = IF result.tag \in {"Error", "Failure"}
                        THEN Append(applied, [op |-> "add_context", i |-> top.i, ctx |-> top.ctx])
                        ELSE applied
  /\ stack' = SubSeq(stack, 1, Len(stack) - 1)
  /\ UNCHANGED <<repr, input>>

\* the character parser applied to the input
Char(c) == Apply([op |-> "char", i |-> input, c |-> c], char(repr, c, input))

\* the input an outer combinator was called with: that of the innermost
\* wrapper, which calls it, or the current one outside every wrapper
OuterInputs == IF stack = <<>> THEN {input} ELSE {stack[Len(stack)].i}

Appends == Len(SelectSeq(applied, LAMBDA a : a.op = "append"))

\* an outer combinator called with pos records that it failed too:
\* Err(e) => Err(append_error(pos, kind, e)), the variant kept
AppendError(pos, kind) ==
  /\ result.tag \in {"Error", "Failure"}
  /\ Appends < MaxAppend
  /\ result' = [result EXCEPT !.err = append_error(repr, pos, kind, result.err)]
  /\ call' = [op |-> "append_error", i |-> pos, kind |-> kind, inner |-> result]
  /\ applied' = Append(applied, [op |-> "append", i |-> pos, kind |-> kind])
  /\ UNCHANGED <<repr, input, stack>>

Next ==
  \/ \E t \in Tags : Tag(t)
  \/ \E t \in Tags : TagNoCase(t)
  \/ \E arr \in Tags : IsNot(arr)
  \/ \E arr \in Tags : IsA(arr)
  \/ \E cond \in Preds : TakeWhile(cond)
  \/ \E cond \in Preds : TakeWhile1(cond)
  \/ \E m \in Counts, n \in Counts, cond \in Preds : TakeWhileMN(m, n, cond)
  \/ \E cond \in Preds : TakeTill(cond)
  \/ \E cond \in Preds : TakeTill1(cond)
  \/ \E count \in Counts : Take(count)
  \/ \E t \in Tags : TakeUntil(t)
  \/ Advance

\* the primitives, applied one after the other to what the last one left
Spec == Init /\ [][Next]_vars

NextCtx ==
  \/ \E ctx \in Labels : EnterContext(ctx)
  \/ \E count \in Counts : Take(count)
  \/ \E c \in Alphabet : Char(c)
  \/ \E pos \in OuterInputs, kind \in AppendKinds : AppendError(pos, kind)
  \/ \E needed \in Needs : Streaming(needed)
  \/ Advance
  \/ ExitContext

\* context wrappers and appending combinators around sequences of take(count),
\* character and streaming parsers
SpecCtx == InitCtx /\ [][NextCtx]_vars

\* ------------------------------------------------------------- claims
Primitives ==
  {"tag", "tag_no_case", "is_not", "is_a", "take_while", "take_while1",
   "take_while_m_n", "take_till", "take_till1", "take", "take_until"}

\* the kind each primitive fails with
KindOf(op) ==
  CASE op \in {"tag", "tag_no_case"} -> "Tag"
    [] op = "is_a" -> "IsA"
    [] op = "is_not" -> "IsNot"
    [] op = "take_while1" -> "TakeWhile1"
    [] op = "take_while_m_n" -> "TakeWhileMN"
    [] op = "take_till1" -> "TakeTill1"
    [] op = "take" -> "Eof"
    [] op = "take_until" -> "TakeUntil"
    [] OTHER -> "none"

Prefix(i, k) == SubSeq(i, 1, k)
Suffix(i, k) == SubSeq(i, k + 1, Len(i))

\* length of the maximal leading run of i whose elements satisfy cond
RECURSIVE Run(_, _)
Run(i, cond) ==
  IF i = <<>> THEN 0
  ELSE IF cond[Head(i)] THEN 1 + Run(Tail(i), cond)
  ELSE 0

\* C1: whenever a primitive returns Ok((rest, matched)), matched followed by
\* rest is the input it was applied to
C1_Concatenation ==
  (call.op \in Primitives /\ result.tag = "Ok")
    => /\ result.out \o result.rest = call.i
       /\ Len(result.out) + Len(result.rest) = Len(call.i)

\* take_while_m_n stopped by its upper bound at the end of a longer input
C1_Witness ==
  /\ call.op = "take_while_m_n"
  /\ result.tag = "Ok"
  /\ Run(call.i, call.cond) = Len(call.i)
  /\ Len(call.i) > call.n
  /\ call.n > 0
  /\ result.out \o result.rest = call.i

\* C2: a primitive that does not succeed returns Err::Error of
\* from_error_kind(its own input, its own kind): never Failure, never Incomplete
C2_ErrorValue ==
  (call.op \in Primitives /\ result.tag # "Ok")
    => /\ result.tag = "Error"
       /\ result.err = from_error_kind(repr, call.i, KindOf(call.op))
       /\ repr = "pair" => (result.err.input = call.i /\ result.err.kind = KindOf(call.op))

\* is_a fails on a non-empty input that begins outside the set
C2_Witness ==
  /\ call.op = "is_a"
  /\ call.i # <<>>
  /\ repr = "pair"
  /\ result.tag = "Error"
  /\ result.err.kind = "IsA"

\* C3: context(label, parser)(i) passes Ok and Incomplete through unchanged and
\* turns Error(e) and Failure(e) into Failure(add_context(i, label, e)) with the
\* input the wrapper was called with; it never returns Err::Error
C3_Context ==
  call.op = "context"
    => /\ call.inner.tag \in {"Ok", "Incomplete"} => result = call.inner
       /\ call.inner.tag \in {"Error", "Failure"}
            => /\ result.tag = "Failure"
               /\ result.err = add_context(repr, call.i, call.ctx, call.inner.err)
               /\ repr = "verbose"
                    => result.err.errors[Len(result.err.errors)]
                         = <<call.i, [v |-> "Context", ctx |-> call.ctx]>>
       /\ result.tag # "Error"

\* an outer wrapper returns the Failure of an inner wrapper whose parser failed
\* at a later position than the one the wrappers were called at
C3_Witness ==
  /\ call.op = "context"
  /\ call.inner.tag = "Failure"
  /\ repr = "verbose"
  /\ result.tag = "Failure"
  /\ Len(result.err.errors) = 3
  /\ result.err.errors[1][1] # call.i
  /\ result.err.errors[3][1] = call.i

\* the value every failure of a primitive is claimed to be
Fails(kind) ==
  /\ result.tag = "Error"
  /\ result.err = from_error_kind(repr, call.i, kind)

\* Ok((rest, matched)) with matched the first k elements of the input
Takes(k) ==
  /\ result.tag = "Ok"
  /\ result.out = Prefix(call.i, k)
  /\ result.rest = Suffix(call.i, k)

\* C4 as stated: take_while_m_n fails with TakeWhileMN whenever the maximal
\* leading run is shorter than m, for every m and n
C4_Original ==
  (call.op = "take_while_m_n" /\ Run(call.i, call.cond) < call.m)
    => Fails("TakeWhileMN")

\* C4 amended: take_while_m_n fails with TakeWhileMN whenever the maximal leading
\* run is shorter than m, unless m > n, every element of the input qualifies and
\* the input has at least n elements: then it returns the first n elements
C4_Amended ==
  call.op = "take_while_m_n"
    => LET r == Run(call.i, call.cond)
           atEnd == r = Len(call.i) /\ Len(call.i) >= call.n
       IN  /\ (r < call.m /\ (call.m <= call.n \/ ~atEnd)) => Fails("TakeWhileMN")
           /\ (r < call.m /\ call.m > call.n /\ atEnd) => Takes(call.n)

\* with m <= n, an input all of whose elements qualify but that is shorter than m
C4_Witness ==
  /\ call.op = "take_while_m_n"
  /\ call.m <= call.n
  /\ call.i # <<>>
  /\ Run(call.i, call.cond) = Len(call.i)
  /\ Len(call.i) < call.m
  /\ Fails("TakeWhileMN")

\* C5: for m <= n, take_while_m_n succeeds exactly when the maximal leading run
\* r is at least m, and then matches the first min(r, n) elements
C5_Bounded ==
  (call.op = "take_while_m_n" /\ call.m <= call.n)
    => LET r == Run(call.i, call.cond)
       IN  /\ result.tag = "Ok" <=> r >= call.m
           /\ result.tag = "Ok"
                => /\ Takes(Min(r, call.n))
                   /\ Len(result.out) >= call.m
                   /\ Len(result.out) <= call.n

\* a run longer than n that is followed by an element that does not qualify:
\* exactly n elements are matched and the rest starts with a qualifying one
C5_Witness ==
  /\ call.op = "take_while_m_n"
  /\ call.m <= call.n
  /\ call.m > 0
  /\ Run(call.i, call.cond) > call.n
  /\ Run(call.i, call.cond) < Len(call.i)
  /\ result.tag = "Ok"
  /\ Len(result.out) = call.n
  /\ call.cond[Head(result.rest)]

\* C6: take(n) succeeds exactly when the input has at least n elements, with
\* the first n elements matched; otherwise it fails with Eof
C6_Take ==
  call.op = "take"
    => /\ result.tag = "Ok" <=> Len(call.i) >= call.count
       /\ result.tag = "Ok" => (Takes(call.count) /\ Len(result.out) = call.count)
       /\ Len(call.i) < call.count => Fails("Eof")

\* take(n) of a non-empty input of exactly n elements
C6_Witness ==
  /\ call.op = "take"
  /\ call.count = Len(call.i)
  /\ call.count > 0
  /\ result.tag = "Ok"
  /\ result.rest = <<>>

\* needle occurs in i at offset k
OccursAt(needle, i, k) ==
  /\ k + Len(needle) <= Len(i)
  /\ \A j \in 1 .. Len(needle) : i[k + j] = needle[j]

\* C7: take_until(needle) succeeds exactly when needle occurs in the input; the
\* match is what precedes the first occurrence and the rest begins with needle;
\* otherwise it fails with TakeUntil
C7_TakeUntil ==
  call.op = "take_until"
    => LET occurs == \E k \in 0 .. Len(call.i) : OccursAt(call.t, call.i, k)
       IN  /\ result.tag = "Ok" <=> occurs
           /\ result.tag = "Ok"
                => /\ result.out \o result.rest = call.i
                   /\ OccursAt(call.t, call.i, Len(result.out))
                   /\ \A k \in 0 .. Len(result.out) - 1 : ~OccursAt(call.t, call.i, k)
                   /\ Prefix(result.rest, Len(call.t)) = call.t
           /\ ~occurs => Fails("TakeUntil")

\* a needle of two elements found after a non-empty match
C7_Witness ==
  /\ call.op = "take_until"
  /\ Len(call.t) = MaxTag
  /\ result.tag = "Ok"
  /\ result.out # <<>>
  /\ result.rest = call.t

\* C8: take_while and take_till never fail; take_while matches the maximal
\* leading run of elements that satisfy the predicate, take_till that of the
\* elements that do not, which is what take_while of the negation returns
C8_Unbounded ==
  /\ call.op = "take_while"
       => /\ Takes(Run(call.i, call.cond))
          /\ \A k \in 1 .. Len(result.out) : call.cond[result.out[k]]
          /\ result.rest # <<>> => ~call.cond[Head(result.rest)]
  /\ call.op = "take_till"
       => /\ Takes(Run(call.i, Not(call.cond)))
          /\ \A k \in 1 .. Len(result.out) : ~call.cond[result.out[k]]
          /\ result.rest # <<>> => call.cond[Head(result.rest)]
          /\ result = take_while(repr, Not(call.cond), call.i)

\* take_while stops inside a non-empty input after a non-empty match
C8_Witness ==
  /\ call.op = "take_while"
  /\ result.tag = "Ok"
  /\ result.out # <<>>
  /\ result.rest # <<>>

\* C9: take_while1, take_till1, is_a and is_not fail, each with its own kind,
\* exactly when the match would be empty, and otherwise return what take_while
\* or take_till of the same condition returns
C9_NonEmpty ==
  LET same(r, kind, unbounded) ==
        /\ r = 0 => Fails(kind)
        /\ r > 0 => (result = unbounded /\ Takes(r))
        /\ result.tag = "Error" <=> r = 0
  IN  /\ call.op = "take_while1"
           => same(Run(call.i, call.cond), "TakeWhile1",
                   take_while(repr, call.cond, call.i))
      /\ call.op = "take_till1"
           => same(Run(call.i, Not(call.cond)), "TakeTill1",
                   take_till(repr, call.cond, call.i))
      /\ call.op = "is_a"
           => same(Run(call.i, InSet(call.arr)), "IsA",
                   take_while(repr, InSet(call.arr), call.i))
      /\ call.op = "is_not"
           => same(Run(call.i, Not(InSet(call.arr))), "IsNot",
                   take_till(repr, InSet(call.arr), call.i))

\* is_not matches a non-empty run and stops at an element of the set
C9_Witness ==
  /\ call.op = "is_not"
  /\ result.tag = "Ok"
  /\ result.out # <<>>
  /\ result.rest # <<>>
  /\ \E k \in 1 .. Len(call.arr) : call.arr[k] = Head(result.rest)

\* two bytes are equal up to the case of a letter ('A' is 65, 'a' is 97)
SameFolded(a, b) == a = b \/ {a, b} = {65, 97}

\* C10: tag(lit) succeeds exactly when the input begins with lit, matching lit;
\* tag_no_case does so up to case, matching the input's own elements; both fail
\* with Tag at the input otherwise
C10_Tag ==
  /\ call.op = "tag"
       => LET begins == /\ Len(call.t) <= Len(call.i)
                        /\ \A k \in 1 .. Len(call.t) : call.i[k] = call.t[k]
          IN  /\ result.tag = "Ok" <=> begins
              /\ begins => (Takes(Len(call.t)) /\ result.out = call.t)
              /\ ~begins => Fails("Tag")
  /\ call.op = "tag_no_case"
       => LET begins == /\ Len(call.t) <= Len(call.i)
                        /\ \A k \in 1 .. Len(call.t) : SameFolded(call.i[k], call.t[k])
          IN  /\ result.tag = "Ok" <=> begins
              /\ begins => Takes(Len(call.t))
              /\ ~begins => Fails("Tag")

\* tag_no_case matches input elements whose case is not that of the literal
C10_Witness ==
  /\ call.op = "tag_no_case"
  /\ call.t # <<>>
  /\ result.tag = "Ok"
  /\ result.out # call.t
  /\ result.rest # <<>>

\* C11 as stated: on the (input, ErrorKind) pair, append_error returns an error
\* whose position and kind are the ones passed to the call
C11_Original ==
  (call.op = "append_error" /\ repr = "pair")
    => /\ result.err.input = call.i
       /\ result.err.kind = call.kind

\* C11 amended: on the (input, ErrorKind) pair, append_error discards the input
\* and the kind passed to the call and returns the inner error unchanged: its
\* position and kind are those of the inner error
C11_Amended ==
  (call.op = "append_error" /\ repr = "pair")
    => /\ result.tag = call.inner.tag
       /\ result.err = call.inner.err
       /\ result.err.input = call.inner.err.input
       /\ result.err.kind = call.inner.err.kind

\* an outer combinator appends its kind, at the input it was called with, to an
\* error of another kind built at a later position
C11_Witness ==
  /\ call.op = "append_error"
  /\ repr = "pair"
  /\ call.inner.err.input # call.i
  /\ call.inner.err.kind # call.kind
  /\ result.err.kind = call.inner.err.kind

\* the entry of a VerboseError that a call of the trail adds
EntryOf(a) ==
  CASE a.op = "from" ->
         <<a.call.i, IF a.call.op = "char" THEN [v |-> "Char", c |-> a.call.c]
                     ELSE [v |-> "Nom", kind |-> KindOf(a.call.op)]>>
    [] a.op = "append" -> <<a.i, [v |-> "Nom", kind |-> a.kind]>>
    [] a.op = "add_context" -> <<a.i, [v |-> "Context", ctx |-> a.ctx]>>

\* C12: a VerboseError built by from_error_kind or from_char and then extended
\* by k append / add_context calls has k + 1 entries, entry 0 the original
\* failure and entry j the one the j-th call added, with that call's input
C12_Accumulates ==
  (repr = "verbose" /\ result.tag \in {"Error", "Failure"})
    => /\ Len(applied) >= 1
       /\ applied[1].op = "from"
       /\ Len(result.err.errors) = Len(applied)
       /\ \A j \in 1 .. Len(applied) : result.err.errors[j] = EntryOf(applied[j])

\* context(outer, context(inner, p)) has returned from a p that failed at a
\* later position: the list ends with Context(inner), then Context(outer)
C12_Witness ==
  /\ repr = "verbose"
  /\ call.op = "context"
  /\ stack = <<>>
  /\ result.tag = "Failure"
  /\ Len(result.err.errors) = 3
  /\ result.err.errors[1][1] # call.i
  /\ result.err.errors[2] = <<call.i, [v |-> "Context", ctx |-> "inner"]>>
  /\ result.err.errors[3] = <<call.i, [v |-> "Context", ctx |-> "outer"]>>

=============================================================================
